---- MODULE Spec2Model ----
(***************************************************************************)
(* The audio engine of rhythmic_shapes: the voice pool (VoiceHandler), the  *)
(* voices' envelope cursor and oscillator, the note-event channel and the   *)
(* render callback (process) that splits a buffer into sub-blocks.          *)
(*                                                                          *)
(* Number representation                                                    *)
(*  - f32 quantities are kept in fixed point.  A phase is counted in units  *)
(*    of TAU / sample_rate, so that phase_increment = freq / sample_rate *  *)
(*    TAU is the frequency itself and TAU is sample_rate units.             *)
(*  - An envelope gain is counted in units of 0.125 / num_steps, so that    *)
(*    (i / num_steps) * 0.125 is i.                                         *)
(*  - A u64 is kept as its two's-complement reading (v for v < 2^63 and     *)
(*    v - 2^64 otherwise): wrapping_add(1) is +1 on this reading, because   *)
(*    the successor of 2^64 - 1 (read -1) is 0.  U64Less recovers the       *)
(*    unsigned order that min_by_key uses.                                  *)
(***************************************************************************)
EXTENDS Integers, Sequences, FiniteSets, TLC

\* ------------------------------------------------------------------ constants

NUM_VOICES == 16

MAX_BLOCK_SIZE == 64

\* envelope_time_secs = 0.3 as the fraction EnvTimeNum / EnvTimeDen
EnvTimeNum == 3

EnvTimeDen == 10

\* ------------------------------------------------------------------ bounds

\* the sample rate the engine is built with: the program runs at 44100 (an
\* envelope table of 13230 entries); the model runs at a lower rate, whose
\* table (660 entries) is played out within a few sub-blocks
SampleRates == {2200}

\* the notes of the sequencer's nodes (69, and 69 + 12 for node 0)
Notes == {69, 81}

\* resolution of the oscillator output: sin is kept in units of 1 / SinScale
SinScale == 10

\* how far before 2^64 the id counter of a long-running pool stands
WrapMargin == 3

\* calls of start_voice on the pool (API level)
MaxStarts == 17

\* of which the first VariedStarts take any note of Notes, the later ones 69
VariedStarts == 2

\* calls of process_block on the pool (API level)
MaxBlocks == 1

\* calls of kill_active_voices on the pool (API level)
MaxKills == 1

\* frames of the buffer handed to process_block (API level)
PoolFrames == 4

\* frames per buffer the backend may hand to the callback
BufferLens == {100, 128}

\* timing fields of the events on the channel (a u32 each)
Timings == {0, 64, 100}

\* what Instant::elapsed() may return at the end of a callback, in units of
\* 0.0001 s: the threshold itself and a buffer period
ElapsedTimes == {1, 116}

\* events the note-dispatch thread sends
MaxSends == 2

\* callbacks the backend makes
MaxCallbacks == 2

\* next_envelope_block is tried on the cursors 0, PoolFrames and the last
\* EnvTail ones before the end of the table
EnvTail == 66

\* events of a burst that overloads the pool
MaxBurst == 17

\* the timing field of the events of a burst, and the buffers it meets
BurstTiming == 10

BurstLens == {16}

\* the callbacks of the burst
BurstCallbacks == 1

\* buffer lengths and timings around the block size, and the sends and
\* callbacks that meet them
BlockLens == {0, 1, 64, 65, 100, 130}

BlockTimings == {0, 1, 64, 65, 129}

BlockSends == 2

BlockCallbacks == 1

\* ------------------------------------------------------------------ state

VARIABLES
    sample_rate,     \* the shared Atomic<f32> sample rate
    envelope_data,   \* the shared envelope table, kept by its length
    voices,          \* VoiceHandler::voices, slot -> <<>> (None) or <<voice>>
    id_counter,      \* VoiceHandler::id_counter
    buffer,          \* the interleaved stereo buffer being rendered
    channel,         \* the mpsc channel of NoteEvents, oldest first
    pc,              \* where the render callback stands
    buffer_len,      \* process: buffer.len_frames()
    next_event,      \* process: the local next_event, <<>> (None) or <<event>>
    block_start,     \* process: the local block_start
    block_end,       \* process: the local block_end
    callback_delta_time, \* the shared Atomic<f32> delta, in units of 0.0001 s
    timer_reset,     \* whether the last set_callback_timer reset callback_timer
    start_log,       \* history: ids given by start_voice since the pool was last empty
    calls,           \* history: the calls made so far, by method, and the events
                     \* passed to start_voice by process
    cb,              \* history: what the current (or last) callback received and did,
                     \* and the channel and the pool it found
    unit             \* a call of one function on drawn arguments, and its result;
                     \* for the control side, its channel, thread and sends

handler == <<sample_rate, envelope_data, voices, id_counter>>

locals == <<pc, buffer_len, next_event, block_start, block_end>>

timer == <<callback_delta_time, timer_reset>>

vars == <<sample_rate, envelope_data, voices, id_counter, buffer, channel, pc,
          buffer_len, next_event, block_start, block_end, callback_delta_time,
          timer_reset, start_log, calls, cb, unit>>

Slots == 0 .. (NUM_VOICES - 1)

Min(a, b) == IF a <= b THEN a ELSE b

\* ------------------------------------------------------------------ util.rs

\* note_to_freq for the notes an whole number of octaves from A4
NoteToFreq(note) ==
    IF note >= 69
    THEN 440 * (2 ^ ((note - 69) \div 12))
    ELSE 440 \div (2 ^ ((69 - note) \div 12))

\* ------------------------------------------------------------------ sine.rs

TAU(sr) == sr

\* f32::sin of a phase in [0, TAU), as the parabola 4y(1-y) on each half period
Sin(phase, sr) ==
    LET y2   == 2 * phase
        half == IF y2 < sr THEN y2 ELSE y2 - sr
        mag  == (4 * half * (sr - half)) \div ((sr * sr) \div SinScale)
    IN  IF y2 < sr THEN mag ELSE 0 - mag

SineOscNew(freq_hz, sr) == [phase |-> 0, phase_increment |-> freq_hz]

\* an increment that never takes the subtraction of TAU
SineOscIncrementUnwrapped(osc, sr) ==
    [osc EXCEPT !.phase = osc.phase + osc.phase_increment]

SineOscIncrement(osc, sr) ==
    LET p == osc.phase + osc.phase_increment
    IN  [osc EXCEPT !.phase = IF TAU(sr) <= p THEN p - TAU(sr) ELSE p]

\* the oscillator states met by n calls of process(): <<osc_0, ..., osc_n>>
\* (the n calls are taken as two runs, one after the other, which keeps the
\* evaluation shallow)
RECURSIVE SineOscRun(_, _, _)
SineOscRun(osc, sr, n) ==
    IF n = 0 THEN <<osc>>
    ELSE IF n = 1 THEN <<osc, SineOscIncrement(osc, sr)>>
    ELSE LET half   == n \div 2
             before == SineOscRun(osc, sr, half)
             after  == SineOscRun(before[half + 1], sr, n - half)
         IN  before \o Tail(after)

\* ------------------------------------------------------------------ voice/handler.rs: build_envelope

\* (a slip: the number of steps is rounded to the nearest integer)
BuildEnvelopeRounded(sr, num, den) == (2 * sr * num + den) \div (2 * den)

\* build_envelope(sample_rate, envelope_time_secs), the time being num / den:
\* (0..num_steps as usize), where the cast truncates
\* sample_rate * envelope_time_secs
BuildEnvelopeFor(sr, num, den) == (sr * num) \div den

\* build_envelope(sample_rate_ref.lr(), 0.3)
BuildEnvelope(sr) == BuildEnvelopeFor(sr, EnvTimeNum, EnvTimeDen)

\* entry j of the table built by .rev().map(|i| (i / num_steps) * 0.125)
EnvelopeAt(env, j) == env - 1 - j

\* ------------------------------------------------------------------ voice/mod.rs

\* (a slip: finished as soon as the cursor reaches the end of the table)
FinishedAtEnd(v, env) == v.envelope_idx >= env

\* self.envelope_idx > self.envelope_data.len()
EnvelopeIsFinished(v, env) == v.envelope_idx > env

\* block is the scratch array (0-based entry i is block[i + 1])
NextEnvelopeBlock(v, env, block, block_len) ==
    LET pos       == v.envelope_idx
        rem       == env - pos
        num_iters == Min(rem, block_len)
        excess    == block_len - num_iters
    IN  [ voice |-> [v EXCEPT !.envelope_idx = pos + num_iters],
          block |-> [k \in DOMAIN block |->
                        IF k - 1 < excess THEN 0
                        ELSE IF k - 1 < num_iters THEN EnvelopeAt(env, pos + k - 1)
                        ELSE block[k]] ]

\* what next_envelope_block touches: whether env_len - pos underflows, the
\* indices of envelope_data it reads and the indices of block it writes
EnvelopeBlockAccesses(v, env, block_len) ==
    LET pos       == v.envelope_idx
        num_iters == Min(env - pos, block_len)
        excess    == block_len - num_iters
    IN  [ underflow    |-> pos > env,
          table_reads  |-> {pos + i : i \in 0 .. (num_iters - 1)},
          block_writes |-> (0 .. (num_iters - 1)) \cup (0 .. (excess - 1)) ]

\* ------------------------------------------------------------------ voice/handler.rs

None == <<>>

Some(v) == <<v>>

IsSome(slot) == slot # None

U64WrappingAdd1(x) == x + 1

U64Less(a, b) == IF (a < 0) = (b < 0) THEN a < b ELSE b < 0

NextVoiceId(counter) == U64WrappingAdd1(counter)

NewVoice(id, note, sr) ==
    [ id           |-> id,
      note         |-> note,
      envelope_idx |-> 0,
      oscillator   |-> SineOscNew(NoteToFreq(note), sr) ]

\* (a slip: the last free slot instead of the first)
LastFreeIdx(vs) ==
    IF \E i \in Slots : vs[i] = None
    THEN CHOOSE i \in Slots : vs[i] = None /\ \A j \in Slots : j > i => vs[j] # None
    ELSE NUM_VOICES

\* position(|voice| voice.is_none()): the first free slot, NUM_VOICES if none
FreeIdx(vs) ==
    IF \E i \in Slots : vs[i] = None
    THEN CHOOSE i \in Slots : vs[i] = None /\ \A j \in Slots : j < i => vs[j] # None
    ELSE NUM_VOICES

\* (a slip: max_by_key, which takes the last slot among those of the largest id)
NewestIdx(vs) ==
    CHOOSE i \in Slots :
        /\ \A j \in Slots : ~U64Less(vs[i][1].id, vs[j][1].id)
        /\ \A j \in Slots : j > i => U64Less(vs[j][1].id, vs[i][1].id)

\* min_by_key(|voice| id): the first slot among those of the smallest id
OldestIdx(vs) ==
    CHOOSE i \in Slots :
        /\ \A j \in Slots : ~U64Less(vs[j][1].id, vs[i][1].id)
        /\ \A j \in Slots : j < i => U64Less(vs[i][1].id, vs[j][1].id)

\* (a slip: no stealing, the index past the array is used on a full pool)
FreeSlotOnly(vs) == FreeIdx(vs)

\* the slot start_voice writes
StartSlot(vs) == IF FreeIdx(vs) < NUM_VOICES THEN FreeIdx(vs) ELSE OldestIdx(vs)

\* panic: self.voices[free_idx] is a checked index
StartVoice(vs, counter, note, sr) ==
    LET next_voice_id == NextVoiceId(counter)
        new_voice     == NewVoice(next_voice_id, note, sr)
        slot          == StartSlot(vs)
    IN  [ voices     |-> IF slot \in Slots THEN [vs EXCEPT ![slot] = Some(new_voice)]
                         ELSE vs,
          id_counter |-> next_voice_id,
          panic      |-> slot \notin Slots ]

KillActiveVoices(vs) == [i \in Slots |-> None]

TerminateFinishedVoices(vs, env) ==
    [i \in Slots |->
        IF IsSome(vs[i]) /\ EnvelopeIsFinished(vs[i][1], env) THEN None ELSE vs[i]]

IsVoiceActive(vs) == \E i \in Slots : IsSome(vs[i])

\* (a slip: the voice is rendered and its cursor left where it was)
RenderVoiceHeld(v, env, sr, scratch, b_start, b_end) ==
    LET block_len == b_end - b_start
        e         == NextEnvelopeBlock(v, env, scratch, block_len)
        run       == SineOscRun(v.oscillator, sr, block_len)
    IN  [ voice   |-> [v EXCEPT !.oscillator = run[block_len + 1]],
          scratch |-> e.block,
          out     |-> [k \in 1 .. block_len |-> Sin(run[k].phase, sr) * e.block[k]] ]

\* one voice of process_block: its envelope block, then out * amp for each
\* frame of the sub-block (entry k is the frame b_start + k - 1)
RenderVoice(v, env, sr, scratch, b_start, b_end) ==
    LET block_len == b_end - b_start
        e         == NextEnvelopeBlock(v, env, scratch, block_len)
        run       == SineOscRun(v.oscillator, sr, block_len)
    IN  [ voice   |-> [e.voice EXCEPT !.oscillator = run[block_len + 1]],
          scratch |-> e.block,
          out     |-> [k \in 1 .. block_len |-> Sin(run[k].phase, sr) * e.block[k]] ]

\* the voices in slot order, from slot i on; mix[k] is what has been added to
\* both samples of the frame b_start + k - 1 so far
RECURSIVE ProcessVoices(_, _, _, _, _, _, _, _)
ProcessVoices(i, vs, env, sr, mix, scratch, b_start, b_end) ==
    IF i = NUM_VOICES THEN [voices |-> vs, mix |-> mix]
    ELSE IF vs[i] = None
         THEN ProcessVoices(i + 1, vs, env, sr, mix, scratch, b_start, b_end)
         ELSE LET r == RenderVoice(vs[i][1], env, sr, scratch, b_start, b_end)
              IN  ProcessVoices(i + 1, [vs EXCEPT ![i] = Some(r.voice)], env, sr,
                                [k \in DOMAIN mix |-> mix[k] + r.out[k]],
                                r.scratch, b_start, b_end)

\* (a slip: the event is read and left in the channel)
TryRecvPeek(ch) ==
    IF ch = <<>>
    THEN [event |-> None, channel |-> ch]
    ELSE [event |-> Some(Head(ch)), channel |-> ch]

\* (a slip: the block is left as it was)
ProcessBlockSkipped(vs, env, sr, buf, b_start, b_end) == [voices |-> vs, buffer |-> buf]

\* (a slip: a voice whose table has run out is dropped by process_block)
ProcessBlockRetiring(vs, env, sr, buf, b_start, b_end) ==
    LET r == ProcessVoices(0, vs, env, sr, [k \in 1 .. (b_end - b_start) |-> 0],
                           [k \in 1 .. MAX_BLOCK_SIZE |-> 0], b_start, b_end)
    IN  [ voices |-> [i \in Slots |->
                         IF IsSome(r.voices[i]) /\ FinishedAtEnd(r.voices[i][1], env)
                         THEN None ELSE r.voices[i]],
          buffer |-> [s \in DOMAIN buf |->
                         LET f == (s - 1) \div 2
                         IN  IF b_start <= f /\ f < b_end
                             THEN buf[s] + r.mix[f - b_start + 1] ELSE buf[s]] ]

\* (a slip: the samples of the block are assigned, not added to)
ProcessBlockOverwriting(vs, env, sr, buf, b_start, b_end) ==
    LET r == ProcessVoices(0, vs, env, sr, [k \in 1 .. (b_end - b_start) |-> 0],
                           [k \in 1 .. MAX_BLOCK_SIZE |-> 0], b_start, b_end)
    IN  [ voices |-> r.voices,
          buffer |-> [s \in DOMAIN buf |->
                         LET f == (s - 1) \div 2
                         IN  IF b_start <= f /\ f < b_end
                             THEN r.mix[f - b_start + 1] ELSE buf[s]] ]

\* buffer[sample_idx * 2] += out * amp; buffer[sample_idx * 2 + 1] += out * amp
\* (the samples 2f and 2f + 1 of frame f are the entries 2f + 1 and 2f + 2)
ProcessBlock(vs, env, sr, buf, b_start, b_end) ==
    LET r == ProcessVoices(0, vs, env, sr, [k \in 1 .. (b_end - b_start) |-> 0],
                           [k \in 1 .. MAX_BLOCK_SIZE |-> 0], b_start, b_end)
    IN  [ voices |-> r.voices,
          buffer |-> [s \in DOMAIN buf |->
                         LET f == (s - 1) \div 2
                         IN  IF b_start <= f /\ f < b_end
                             THEN buf[s] + r.mix[f - b_start + 1] ELSE buf[s]] ]

\* ------------------------------------------------------------------ the pool, call by call

ZeroBuffer(frames) == [s \in 1 .. (2 * frames) |-> 0]

ActiveSlots(vs) == {i \in Slots : IsSome(vs[i])}

ActiveIds(vs) == {vs[i][1].id : i \in ActiveSlots(vs)}

NoCalls == [start_voice |-> 0, process_block |-> 0, kill_active_voices |-> 0,
            send |-> 0, process |-> 0, applied |-> <<>>]

NoUnit == [op |-> "none"]

NoCallback ==
    [received |-> <<>>, applied |-> <<>>, blocks |-> <<>>, silent |-> TRUE,
     pending |-> <<>>, pool |-> [i \in Slots |-> None], sent |-> 0,
     entry |-> 0, mix |-> <<>>, elapsed |-> 0]

\* AudioSystem::build: the handler, the channel and the callback state
InitBuild ==
    /\ sample_rate \in SampleRates
    /\ envelope_data = BuildEnvelope(sample_rate)
    /\ voices = [i \in Slots |-> None]
    /\ id_counter = 0
    /\ buffer = <<>>
    /\ channel = <<>>
    /\ pc = "idle"
    /\ buffer_len = 0
    /\ next_event = None
    /\ block_start = 0
    /\ block_end = 0
    /\ callback_delta_time = 0
    /\ timer_reset = FALSE
    /\ start_log = <<>>
    /\ calls = NoCalls
    /\ cb = NoCallback
    /\ unit = NoUnit

\* the pool of a handler that has started `counter` voices, none killed: it is
\* full of the 16 voices started last, the voice of id k in slot (k - 1) % 16
\* (the slots are filled and then stolen in turn), each played out
LongRunVoices(counter, env, sr) ==
    [i \in Slots |->
        LET id == CHOOSE k \in (counter - NUM_VOICES + 1) .. counter :
                      (k - 1) % NUM_VOICES = i
        IN  Some([NewVoice(id, 69, sr) EXCEPT !.envelope_idx = env])]

\* VoiceHandler::build, or the handler after 2^64 - WrapMargin voices
InitPool ==
    /\ sample_rate \in SampleRates
    /\ envelope_data = BuildEnvelope(sample_rate)
    /\ id_counter \in {0, 0 - WrapMargin}
    /\ voices = IF id_counter = 0 THEN [i \in Slots |-> None]
                ELSE LongRunVoices(id_counter, envelope_data, sample_rate)
    /\ buffer = ZeroBuffer(PoolFrames)
    /\ channel = <<>>
    /\ pc = "idle"
    /\ buffer_len = 0
    /\ next_event = None
    /\ block_start = 0
    /\ block_end = 0
    /\ callback_delta_time = 0
    /\ timer_reset = FALSE
    /\ start_log = IF id_counter = 0 THEN <<>>
                   ELSE [k \in 1 .. NUM_VOICES |-> id_counter - NUM_VOICES + k]
    /\ calls = NoCalls
    /\ cb = NoCallback
    /\ unit = NoUnit

CallStartVoice ==
    /\ pc = "idle"
    /\ calls.start_voice < MaxStarts
    /\ \E note \in Notes :
         /\ note # 69 => calls.start_voice < VariedStarts
         /\ LET r == StartVoice(voices, id_counter, note, sample_rate)
            IN  /\ voices' = r.voices
                /\ id_counter' = r.id_counter
                /\ start_log' = Append(start_log, r.id_counter)
                /\ pc' = IF r.panic THEN "panicked" ELSE pc
    /\ calls' = [calls EXCEPT !.start_voice = @ + 1]
    /\ UNCHANGED <<sample_rate, envelope_data, buffer, channel, buffer_len,
                   next_event, block_start, block_end, timer, cb, unit>>

CallProcessBlock ==
    /\ pc = "idle"
    /\ calls.process_block < MaxBlocks
    /\ \E b \in {<<0, PoolFrames>>, <<1, PoolFrames - 1>>} :
         LET r == ProcessBlock(voices, envelope_data, sample_rate, buffer, b[1], b[2])
         IN  /\ voices' = r.voices
             /\ buffer' = r.buffer
    /\ calls' = [calls EXCEPT !.process_block = @ + 1]
    /\ UNCHANGED <<sample_rate, envelope_data, id_counter, channel, locals, timer,
                   start_log, cb, unit>>

CallTerminateFinishedVoices ==
    /\ pc = "idle"
    /\ voices' = TerminateFinishedVoices(voices, envelope_data)
    /\ start_log' = IF voices' = voices THEN start_log ELSE <<>>
    /\ UNCHANGED <<sample_rate, envelope_data, id_counter, buffer, channel, locals,
                   timer, calls, cb, unit>>

CallKillActiveVoices ==
    /\ pc = "idle"
    /\ calls.kill_active_voices < MaxKills
    /\ voices' = KillActiveVoices(voices)
    /\ start_log' = <<>>
    /\ calls' = [calls EXCEPT !.kill_active_voices = @ + 1]
    /\ UNCHANGED <<sample_rate, envelope_data, id_counter, buffer, channel, locals,
                   timer, cb, unit>>

NextPool ==
    \/ CallStartVoice
    \/ CallProcessBlock
    \/ CallTerminateFinishedVoices
    \/ CallKillActiveVoices

SpecPool == InitPool /\ [][NextPool]_vars

\* ------------------------------------------------------------------ voice/note.rs, the channel

NoteOn(timing, note, seq) ==
    [kind |-> "NoteOn", timing |-> timing, note |-> note, seq |-> seq]

\* (a slip: the receiver takes the event sent last)
TryRecvNewest(ch) ==
    IF ch = <<>>
    THEN [event |-> None, channel |-> ch]
    ELSE [event |-> Some(ch[Len(ch)]), channel |-> SubSeq(ch, 1, Len(ch) - 1)]

\* Receiver::try_recv().ok()
TryRecv(ch) ==
    IF ch = <<>>
    THEN [event |-> None, channel |-> ch]
    ELSE [event |-> Some(Head(ch)), channel |-> Tail(ch)]

\* the note-dispatch thread: sender.send(NoteEvent::NoteOn { timing, data })
Send(timings, notes, limit) ==
    /\ calls.send < limit
    /\ \E timing \in timings, note \in notes :
         channel' = Append(channel, NoteOn(timing, note, calls.send + 1))
    /\ calls' = [calls EXCEPT !.send = @ + 1]
    /\ UNCHANGED <<handler, buffer, locals, timer, start_log, cb, unit>>

\* ------------------------------------------------------------------ process.rs

NoLimit == 0 - 1

\* (a slip: the first block is the whole buffer)
WholeBuffer(len) == len

\* let mut block_end = MAX_BLOCK_SIZE.min(buffer_len)
FirstBlockEnd(len) == Min(MAX_BLOCK_SIZE, len)

\* (a slip: process clears the buffer before the first block)
EntryBufferCleared(len, fill) == ZeroBuffer(len)

\* the buffer as process receives it: len frames, every sample holding fill
EntryBuffer(len, fill) == [s \in 1 .. (2 * len) |-> fill]

\* process, up to the outer loop: the first try_recv and the first block, on
\* a buffer whose samples hold one of fills
ProcessBeginOn(lens, limit, fills) ==
    /\ pc = "idle"
    /\ limit # NoLimit => calls.process < limit
    /\ \E len \in lens, fill \in fills :
         /\ buffer_len' = len
         /\ buffer' = EntryBuffer(len, fill)
         /\ block_end' = FirstBlockEnd(len)
         /\ pc' = IF 0 < len THEN "events" ELSE "timer"
         /\ LET r == TryRecv(channel)
            IN  /\ next_event' = r.event
                /\ channel' = r.channel
                /\ cb' = [received |-> r.event, applied |-> <<>>, blocks |-> <<>>,
                           silent |-> ~IsVoiceActive(voices),
                           pending |-> channel, pool |-> voices, sent |-> calls.send,
                           entry |-> fill, mix |-> ZeroBuffer(len), elapsed |-> 0]
    /\ block_start' = 0
    /\ calls' = IF limit # NoLimit THEN [calls EXCEPT !.process = @ + 1] ELSE calls
    /\ UNCHANGED <<handler, timer, start_log, unit>>

\* process on the buffer that the audio backend hands over, which holds
\* silence
ProcessBegin(lens, limit) == ProcessBeginOn(lens, limit, {0})

\* one turn of the 'events loop: an event that is due is applied and the next
\* one fetched
DispatchDue ==
    /\ pc = "events"
    /\ IsSome(next_event)
    /\ next_event[1].timing <= block_start
    /\ IF next_event[1].kind = "NoteOn"
       THEN LET s == StartVoice(voices, id_counter, next_event[1].note, sample_rate)
                r == TryRecv(channel)
            IN  /\ voices' = s.voices
                /\ id_counter' = s.id_counter
                /\ start_log' = Append(start_log, s.id_counter)
                /\ next_event' = r.event
                /\ channel' = r.channel
                /\ cb' = [cb EXCEPT
                            !.applied = Append(@, [event |-> next_event[1],
                                                   at |-> block_start,
                                                   id |-> s.id_counter]),
                            !.received = @ \o r.event]
                /\ calls' = [calls EXCEPT
                               !.applied = Append(@, [seq |-> next_event[1].seq,
                                                      id |-> s.id_counter])]
                /\ pc' = IF s.panic THEN "panicked" ELSE "events"
       ELSE \* unimplemented!()
            /\ pc' = "panicked"
            /\ UNCHANGED <<voices, id_counter, start_log, next_event, channel, cb,
                           calls>>
    /\ UNCHANGED <<sample_rate, envelope_data, buffer, buffer_len, block_start,
                   block_end, timer, unit>>

\* (a slip: the block is never cut at an event)
KeepBlockEnd(event, b_end) == b_end

\* (a slip: the block ends at the event even when the event is further away)
ShrinkAlways(event, b_end) == IF IsSome(event) THEN event[1].timing ELSE b_end

\* Some(event) if (event.timing() as usize) < block_end => block_end = timing
ShrinkBlockEnd(event, b_end) ==
    IF IsSome(event) /\ event[1].timing < b_end THEN event[1].timing ELSE b_end

\* one turn of the 'events loop that leaves it: an event within the block
\* ends the block at its timing, a later event or none leaves the block whole
DispatchBreak ==
    /\ pc = "events"
    /\ ~(IsSome(next_event) /\ next_event[1].timing <= block_start)
    /\ block_end' = ShrinkBlockEnd(next_event, block_end)
    /\ pc' = "render"
    /\ UNCHANGED <<handler, buffer, channel, buffer_len, next_event, block_start,
                   timer, start_log, calls, cb, unit>>

\* voice_handler.process_block(buffer, block_start, block_end)
Render ==
    /\ pc = "render"
    /\ LET r == ProcessBlock(voices, envelope_data, sample_rate, buffer,
                             block_start, block_end)
       IN  /\ voices' = r.voices
           /\ buffer' = r.buffer
    /\ cb' = [cb EXCEPT
                !.blocks = Append(@, <<block_start, block_end>>),
                !.mix = IF @ = buffer THEN buffer'
                        ELSE ProcessBlock(voices, envelope_data, sample_rate, @,
                                          block_start, block_end).buffer]
    /\ pc' = "terminate"
    /\ UNCHANGED <<sample_rate, envelope_data, id_counter, channel, buffer_len,
                   next_event, block_start, block_end, timer, start_log, calls, unit>>

\* (a slip: the end of the next block is not held within the buffer)
NextBlockEndUnclamped(b_end, len) == b_end + MAX_BLOCK_SIZE

\* block_end = (block_end + MAX_BLOCK_SIZE).min(buffer_len)
NextBlockEnd(b_end, len) == Min(b_end + MAX_BLOCK_SIZE, len)

\* voice_handler.terminate_finished_voices() and the step to the next block
Terminate ==
    /\ pc = "terminate"
    /\ voices' = TerminateFinishedVoices(voices, envelope_data)
    /\ start_log' = IF voices' = voices THEN start_log ELSE <<>>
    /\ block_start' = block_end
    /\ block_end' = NextBlockEnd(block_end, buffer_len)
    /\ pc' = IF block_start' < buffer_len THEN "events" ELSE "timer"
    /\ UNCHANGED <<sample_rate, envelope_data, id_counter, buffer, channel,
                   buffer_len, next_event, timer, calls, cb, unit>>

\* (a slip: an elapsed time of exactly 0.0001 s is stored)
TimerSkipsBelow(delta_time) == delta_time < 1

\* if delta_time <= 0.0001 { return; }
TimerSkips(delta_time) == delta_time <= 1

\* audio.set_callback_timer() and the return of process: the locals are
\* dropped and the buffer goes back to the backend
SetCallbackTimer ==
    /\ pc = "timer"
    /\ \E delta_time \in ElapsedTimes :
         /\ IF TimerSkips(delta_time)
            THEN UNCHANGED timer
            ELSE /\ callback_delta_time' = delta_time
                 /\ timer_reset' = TRUE
         /\ cb' = [cb EXCEPT !.elapsed = delta_time]
    /\ pc' = "idle"
    /\ next_event' = None
    /\ buffer' = <<>>
    /\ UNCHANGED <<handler, channel, buffer_len, block_start, block_end, start_log,
                   calls, unit>>

Next ==
    \/ Send(Timings, Notes, MaxSends)
    \/ ProcessBegin(BufferLens, MaxCallbacks)
    \/ DispatchDue
    \/ DispatchBreak
    \/ Render
    \/ Terminate
    \/ SetCallbackTimer

Spec == InitBuild /\ [][Next]_vars

\* the buffer and the timings of the unbounded run
LiveLens == {128}

LiveTimings == {0, 100}

\* the callbacks go on for ever: the backend calls process once per period
\* and every call runs to its end
Callback ==
    \/ ProcessBegin(LiveLens, NoLimit)
    \/ DispatchDue
    \/ DispatchBreak
    \/ Render
    \/ Terminate
    \/ SetCallbackTimer

NextLive ==
    \/ Send(LiveTimings, Notes, MaxSends)
    \/ Callback

\* Render seen from the position of the callback: it is the only step that
\* leaves "render", and it always goes on to "terminate"
RenderDone == pc = "render" /\ pc' = "terminate"

\* every step of a callback is taken once it is due, and the backend starts
\* the next callback once one has returned
SpecLive ==
    /\ InitBuild
    /\ [][NextLive]_vars
    /\ WF_vars(ProcessBegin(LiveLens, NoLimit))
    /\ WF_vars(DispatchDue)
    /\ WF_vars(DispatchBreak)
    /\ WF_pc(RenderDone)
    /\ WF_vars(Terminate)
    /\ WF_vars(SetCallbackTimer)

\* a burst of taps, all for the frame BurstTiming
SendBurst ==
    /\ calls.send < MaxBurst
    /\ \E timing \in {BurstTiming}, note \in Notes :
         /\ calls.send >= VariedStarts => note = 69
         /\ channel' = Append(channel, NoteOn(timing, note, calls.send + 1))
    /\ calls' = [calls EXCEPT !.send = @ + 1]
    /\ UNCHANGED <<handler, buffer, locals, timer, start_log, cb, unit>>

NextOverload ==
    \/ SendBurst
    \/ ProcessBegin(BurstLens, BurstCallbacks)
    \/ DispatchDue
    \/ DispatchBreak
    \/ Render
    \/ Terminate
    \/ SetCallbackTimer

SpecOverload == InitBuild /\ [][NextOverload]_vars

\* ------------------------------------------------------------------ next_envelope_block on its own

\* what the scratch block may hold on entry: the zeros of its declaration, or
\* the gains the voice before left in it
StaleGains == {0, 7}

InitEnvelope ==
    /\ sample_rate \in SampleRates
    /\ envelope_data = BuildEnvelope(sample_rate)
    /\ voices = [i \in Slots |-> None]
    /\ id_counter = 0
    /\ buffer = <<>>
    /\ channel = <<>>
    /\ pc = "idle"
    /\ buffer_len = 0
    /\ next_event = None
    /\ block_start = 0
    /\ block_end = 0
    /\ callback_delta_time = 0
    /\ timer_reset = FALSE
    /\ start_log = <<>>
    /\ calls = NoCalls
    /\ cb = NoCallback
    /\ \E pos \in {0, PoolFrames} \cup ((envelope_data - EnvTail) .. envelope_data),
          block_len \in {1, MAX_BLOCK_SIZE - 28, MAX_BLOCK_SIZE},
          gain \in StaleGains, note \in Notes :
         unit = [ op        |-> "next_envelope_block",
                  voice     |-> [NewVoice(1, note, sample_rate) EXCEPT !.envelope_idx = pos],
                  block     |-> [k \in 1 .. MAX_BLOCK_SIZE |-> gain],
                  block_len |-> block_len,
                  done      |-> FALSE,
                  result    |-> <<>> ]

CallNextEnvelopeBlock ==
    /\ unit.op = "next_envelope_block"
    /\ ~unit.done
    /\ unit' = [unit EXCEPT
                  !.done = TRUE,
                  !.result = NextEnvelopeBlock(unit.voice, envelope_data, unit.block,
                                               unit.block_len)]
    /\ UNCHANGED <<handler, buffer, channel, locals, timer, start_log, calls, cb>>

NextEnvelope == CallNextEnvelopeBlock

SpecEnvelope == InitEnvelope /\ [][NextEnvelope]_vars

\* C8: next_envelope_block on a cursor p and a table of length T writes
\* block[i] = table[p + i] for i < min(T - p, block_len) and block[i] = 0 for
\* the rest of the first block_len entries, and advances the cursor by
\* min(T - p, block_len).
C8_EnvelopeBlockThenZeros ==
    (unit.op = "next_envelope_block" /\ unit.done) =>
        LET p == unit.voice.envelope_idx
            n == Min(envelope_data - p, unit.block_len)
        IN  /\ unit.result.voice.envelope_idx = p + n
            /\ \A i \in 0 .. (unit.block_len - 1) :
                   unit.result.block[i + 1] =
                       IF i < n THEN EnvelopeAt(envelope_data, p + i) ELSE 0

\* ------------------------------------------------------------------ the voice pool: C1, C6, C7, C10

PoolIsFull(vs) == \A i \in Slots : IsSome(vs[i])

\* a step of start_voice: nothing else moves the id counter
StartVoiceStep == id_counter' # id_counter

\* the slot i alone changes, and receives the voice that start_voice made
OnlySlotStarted(i) ==
    /\ IsSome(voices'[i])
    /\ voices'[i][1].id = id_counter'
    /\ voices'[i][1].envelope_idx = 0
    /\ voices'[i][1].oscillator.phase = 0
    /\ \A j \in Slots : j # i => voices'[j] = voices[j]

\* C1: start_voice on a full pool replaces exactly one voice, one whose id is
\* the smallest of the pool (in the unsigned order), and the other 15 slots
\* keep their voice: id, note, envelope cursor and oscillator state.
C1_StealsSmallestId ==
    [][ (StartVoiceStep /\ PoolIsFull(voices)) =>
          \E i \in Slots :
              /\ \A j \in Slots : ~U64Less(voices[j][1].id, voices[i][1].id)
              /\ OnlySlotStarted(i) ]_vars

\* C1 witness: a 17th voice has been started on a pool whose voices had been
\* rendered, so that they differ in cursor and phase
C1_Witness ==
    /\ id_counter = NUM_VOICES + 1
    /\ Len(start_log) = NUM_VOICES + 1
    /\ PoolIsFull(voices)
    /\ id_counter \in ActiveIds(voices)
    /\ 1 \notin ActiveIds(voices)
    /\ \E i \in Slots : voices[i][1].envelope_idx > 0

\* C10: start_voice on a pool with an Empty slot puts the new voice in the
\* lowest-indexed Empty slot and changes no other slot.
C10_LowestFreeSlot ==
    [][ (StartVoiceStep /\ ~PoolIsFull(voices)) =>
          \E i \in Slots :
              /\ voices[i] = None
              /\ \A j \in Slots : j < i => IsSome(voices[j])
              /\ OnlySlotStarted(i) ]_vars

\* C10 witness: a voice has been started next to rendered voices while slots
\* were still Empty
C10_Witness ==
    /\ Len(start_log) > 2
    /\ ~PoolIsFull(voices)
    /\ id_counter \in ActiveIds(voices)
    /\ \E i \in Slots : IsSome(voices[i]) /\ voices[i][1].envelope_idx > 0

\* the ids of the n voices started last
LastStarted(n) == {start_log[k] : k \in (Len(start_log) - n + 1) .. Len(start_log)}

\* C6: after k >= 16 calls of start_voice with no voice finished or killed in
\* between, the pool holds exactly the 16 voices started last: every call
\* produced a voice and every evicted voice is older than every voice kept.
C6_KeepsNewestVoices ==
    Len(start_log) >= NUM_VOICES => ActiveIds(voices) = LastStarted(NUM_VOICES)

\* C7: the active voices have pairwise distinct ids, and every start_voice
\* assigns an id greater than every id assigned before, over the whole range
\* of the u64 counter.
C7_IdsDistinctAndIncreasing ==
    [][ /\ \A i, j \in ActiveSlots(voices') :
             i # j => voices'[i][1].id # voices'[j][1].id
        /\ StartVoiceStep =>
             /\ U64Less(id_counter, id_counter')
             /\ \A k \in 1 .. Len(start_log) : U64Less(start_log[k], id_counter') ]_vars

\* ------------------------------------------------------------------ the render callback: C3, C4

\* process has left its loop and is about to return
CallbackDone == pc = "timer"

\* how often the callback applied the event of sequence number seq
TimesApplied(seq) ==
    Cardinality({k \in 1 .. Len(cb.applied) : cb.applied[k].event.seq = seq})

\* C3: every NoteOn that process receives from the channel leads to exactly
\* one start_voice, whatever its timing: when the callback returns, none of
\* the events it received has been discarded unapplied or applied twice.
C3_ReceivedAppliedOnce ==
    CallbackDone =>
        \A k \in 1 .. Len(cb.received) : TimesApplied(cb.received[k].seq) = 1

\* the callback received one event only, with 0 < timing < buffer_len
OneEventInside ==
    /\ Len(cb.received) = 1
    /\ 0 < cb.received[1].timing
    /\ cb.received[1].timing < buffer_len

\* C4: a NoteOn with 0 < timing < buffer_len that is the only event of a
\* callback has a sub-block boundary at its timing: its voice is started when
\* block_start = timing and adds nothing to the frames before (on a pool
\* that was silent they stay 0).  For buffer_len = 128 and timing = 100 the
\* sub-blocks are [0,64), [64,100), [100,128).
C4_BoundaryAtTiming ==
    (CallbackDone /\ OneEventInside) =>
        LET t == cb.received[1].timing
        IN  /\ Len(cb.applied) = 1
            /\ cb.applied[1].at = t
            /\ \E i \in ActiveSlots(voices) :
                   /\ voices[i][1].id = cb.applied[1].id
                   /\ voices[i][1].envelope_idx = buffer_len - t
            /\ \E k \in 1 .. Len(cb.blocks) : cb.blocks[k][2] = t
            /\ \E k \in 1 .. Len(cb.blocks) : cb.blocks[k][1] = t
            /\ cb.silent => \A x \in 1 .. (2 * t) : buffer[x] = 0
            /\ (buffer_len = 128 /\ t = 100) =>
                   cb.blocks = << <<0, 64>>, <<64, 100>>, <<100, 128>> >>

\* C4 witness: the buffer of 128 frames and the event of timing 100, on a
\* silent pool: the voice is heard after frame 100
C4_Witness ==
    /\ CallbackDone
    /\ OneEventInside
    /\ buffer_len = 128
    /\ cb.received[1].timing = 100
    /\ cb.silent
    /\ \E x \in (2 * 100 + 1) .. (2 * 128) : buffer[x] # 0

\* ------------------------------------------------------------------ overload: C5

\* C5: the pool never holds more than 16 voices and no callback panics; a
\* callback that received more NoteOn events than there are voices returns
\* with a pool of exactly 16 voices.
C5_OverloadKeepsPool ==
    /\ Cardinality(ActiveSlots(voices)) <= NUM_VOICES
    /\ pc # "panicked"
    /\ (CallbackDone /\ Len(cb.received) > NUM_VOICES) =>
           /\ Len(cb.applied) = Len(cb.received)
           /\ Cardinality(ActiveSlots(voices)) = NUM_VOICES

\* C5 witness: one callback has received and applied 17 events
C5_Witness ==
    /\ CallbackDone
    /\ Len(cb.received) = NUM_VOICES + 1
    /\ Len(cb.applied) = NUM_VOICES + 1
    /\ PoolIsFull(voices)

\* ------------------------------------------------------------------ retiring voices: C9, C2

\* a step of terminate_finished_voices within process
TerminateStep == pc = "terminate" /\ pc' # "terminate"

NoMoreEvents == calls.send = MaxSends /\ channel = <<>> /\ next_event = None

\* C2: once no further NoteOn arrives, the callbacks retire every voice:
\* is_voice_active() eventually returns false.
C2_VoicesEventuallyRetired ==
    (IsVoiceActive(voices) /\ NoMoreEvents) ~> ~IsVoiceActive(voices)

\* ------------------------------------------------------------------ dispatch order: C11

\* C11: when a sub-block is about to be rendered, every NoteOn that was
\* pending at the start of the callback and has timing <= block_start has
\* been applied, by one start_voice.
C11_DueEventsAppliedBeforeRender ==
    pc = "render" =>
        \A k \in 1 .. Len(cb.pending) :
            cb.pending[k].timing <= block_start =>
                TimesApplied(cb.pending[k].seq) = 1

\* ------------------------------------------------------------------ NoteOff: C12

\* NoteEvent::NoteOff { timing, data }
NoteOff(timing, note, seq) ==
    [kind |-> "NoteOff", timing |-> timing, note |-> note, seq |-> seq]

\* a sender of either variant: the channel carries NoteEvent, although the
\* note-dispatch thread of the program only ever sends NoteOn
SendEvent ==
    /\ calls.send < MaxSends
    /\ \E timing \in Timings :
         \/ channel' = Append(channel, NoteOn(timing, 69, calls.send + 1))
         \/ channel' = Append(channel, NoteOff(timing, 69, calls.send + 1))
    /\ calls' = [calls EXCEPT !.send = @ + 1]
    /\ UNCHANGED <<handler, buffer, locals, timer, start_log, cb, unit>>

NextEvents ==
    \/ SendEvent
    \/ ProcessBegin(BufferLens, MaxCallbacks)
    \/ DispatchDue
    \/ DispatchBreak
    \/ Render
    \/ Terminate
    \/ SetCallbackTimer

SpecEvents == InitBuild /\ [][NextEvents]_vars

\* C12: a NoteOff that process has received makes it panic where the event
\* is dispatched: no callback returns having received a NoteOff, and a
\* callback panics only on a NoteOff that is due.
C12_NoteOffFailsFast ==
    /\ CallbackDone =>
           \A k \in 1 .. Len(cb.received) : cb.received[k].kind # "NoteOff"
    /\ pc = "panicked" =>
           /\ IsSome(next_event)
           /\ next_event[1].kind = "NoteOff"
           /\ next_event[1].timing <= block_start

\* ------------------------------------------------------------------ start_voice on any note: C13

\* debug_assert!(0.0 < freq_hz && freq_hz <= sample_rate * 0.5)
SineOscNewAsserts(freq_hz, sr) == 0 < freq_hz /\ 2 * freq_hz <= sr

\* start_voice as built with or without debug assertions: next_voice_id has
\* run when SineOsc::new is reached, and its debug_assert! panics in a build
\* that keeps it.  For the notes 69 and 81 of the program the assertion holds
\* and both builds are StartVoice.
StartVoiceBuilt(vs, counter, note, sr, debug_assertions) ==
    IF debug_assertions /\ ~SineOscNewAsserts(NoteToFreq(note), sr)
    THEN [voices |-> vs, id_counter |-> NextVoiceId(counter), panic |-> TRUE]
    ELSE StartVoice(vs, counter, note, sr)

\* the note: f32 argument, by octaves around A4
StartVoiceNotes == {33, 45, 57, 69, 81, 93, 105}

\* the pool after k starts on a new handler, k <= NUM_VOICES
PoolAfter(k, sr) ==
    [i \in Slots |-> IF i < k THEN Some(NewVoice(i + 1, 69, sr)) ELSE None]

InitStartVoice ==
    /\ sample_rate \in SampleRates
    /\ envelope_data = BuildEnvelope(sample_rate)
    /\ id_counter \in (0 .. NUM_VOICES) \cup {0 - 1}
    /\ voices = IF id_counter >= 0 THEN PoolAfter(id_counter, sample_rate)
                ELSE LongRunVoices(id_counter, envelope_data, sample_rate)
    /\ buffer = <<>>
    /\ channel = <<>>
    /\ pc = "idle"
    /\ buffer_len = 0
    /\ next_event = None
    /\ block_start = 0
    /\ block_end = 0
    /\ callback_delta_time = 0
    /\ timer_reset = FALSE
    /\ start_log = <<>>
    /\ calls = NoCalls
    /\ cb = NoCallback
    /\ \E note \in StartVoiceNotes, debug_assertions \in BOOLEAN :
         unit = [ op               |-> "start_voice",
                  note             |-> note,
                  debug_assertions |-> debug_assertions,
                  done             |-> FALSE,
                  panic            |-> FALSE ]

CallStartVoiceBuilt ==
    /\ unit.op = "start_voice"
    /\ ~unit.done
    /\ LET r == StartVoiceBuilt(voices, id_counter, unit.note, sample_rate,
                                unit.debug_assertions)
       IN  /\ voices' = r.voices
           /\ id_counter' = r.id_counter
           /\ unit' = [unit EXCEPT !.done = TRUE, !.panic = r.panic]
           /\ pc' = IF r.panic THEN "panicked" ELSE pc
    /\ UNCHANGED <<sample_rate, envelope_data, buffer, channel, buffer_len,
                   next_event, block_start, block_end, timer, start_log, calls, cb>>

NextStartVoice == CallStartVoiceBuilt

SpecStartVoice == InitStartVoice /\ [][NextStartVoice]_vars

\* C13: start_voice completes without panic for every note and every pool,
\* and the pool then holds the new voice.
C13_StartVoiceNeverFails ==
    (unit.op = "start_voice" /\ unit.done) =>
        /\ ~unit.panic
        /\ \E i \in ActiveSlots(voices) :
               /\ voices[i][1].id = id_counter
               /\ voices[i][1].note = unit.note
               /\ voices[i][1].envelope_idx = 0

\* ------------------------------------------------------------------ envelope accesses: C14

\* C14: for every voice and sub-block that process_block hands to
\* next_envelope_block, length - cursor does not underflow, the table is
\* read within [0, length) and the scratch block is written, and then read
\* by process_block, within its 64 entries.
C14_EnvelopeAccessesInRange ==
    pc = "render" =>
        \A i \in ActiveSlots(voices) :
            LET a == EnvelopeBlockAccesses(voices[i][1], envelope_data,
                                           block_end - block_start)
            IN  /\ ~a.underflow
                /\ a.table_reads \subseteq 0 .. (envelope_data - 1)
                /\ a.block_writes \subseteq 0 .. (MAX_BLOCK_SIZE - 1)
                /\ 0 .. (block_end - block_start - 1) \subseteq 0 .. (MAX_BLOCK_SIZE - 1)

\* C14 witness: a sub-block is about to be rendered for a voice whose table
\* runs out in the middle of it, next to a voice whose table has run out
C14_Witness ==
    /\ pc = "render"
    /\ \E i \in ActiveSlots(voices) :
          /\ voices[i][1].envelope_idx < envelope_data
          /\ envelope_data - voices[i][1].envelope_idx < block_end - block_start
    /\ \E i \in ActiveSlots(voices) : voices[i][1].envelope_idx = envelope_data

\* ------------------------------------------------------------------ empty channel: C15

\* the first try_recv of the callback found nothing
NothingReceived == cb.received = <<>>

\* the sub-blocks rendered so far follow one another from frame 0
BlocksContiguous ==
    /\ Len(cb.blocks) > 0 => cb.blocks[1][1] = 0
    /\ \A k \in 1 .. (Len(cb.blocks) - 1) : cb.blocks[k + 1][1] = cb.blocks[k][2]

\* C15: a callback that finds the channel empty starts no voice and renders
\* the whole buffer with the voices it found: it returns with the same
\* voices in the same slots, each played for buffer_len frames.
C15_EmptyChannelRendersOn ==
    (CallbackDone /\ NothingReceived) =>
        /\ cb.applied = <<>>
        /\ BlocksContiguous
        /\ cb.blocks[Len(cb.blocks)][2] = buffer_len
        /\ \A i \in Slots :
               IF cb.pool[i] = None THEN voices[i] = None
               ELSE /\ IsSome(voices[i])
                    /\ voices[i][1].id = cb.pool[i][1].id
                    /\ voices[i][1].envelope_idx =
                           Min(envelope_data, cb.pool[i][1].envelope_idx + buffer_len)
                    /\ voices[i][1].oscillator =
                           SineOscRun(cb.pool[i][1].oscillator, sample_rate,
                                      buffer_len)[buffer_len + 1]

\* C15 witness: a callback that received nothing has rendered the voices of
\* an earlier one, while an event sent meanwhile waits in the channel
C15_Witness ==
    /\ CallbackDone
    /\ NothingReceived
    /\ IsVoiceActive(cb.pool)
    /\ channel # <<>>
    /\ \E x \in DOMAIN buffer : buffer[x] # 0

\* ------------------------------------------------------------------ the sub-blocks: C16

NextBlocks ==
    \/ Send(BlockTimings, {69}, BlockSends)
    \/ ProcessBegin(BlockLens, BlockCallbacks)
    \/ DispatchDue
    \/ DispatchBreak
    \/ Render
    \/ Terminate
    \/ SetCallbackTimer

SpecBlocks == InitBuild /\ [][NextBlocks]_vars

\* C16: the sub-blocks rendered within a callback are non-empty, follow one
\* another from frame 0 without gap or overlap, and at the return of the
\* callback end at buffer_len; a voice started at a frame has then been
\* rendered once for every frame from there on.
C16_BlocksPartitionBuffer ==
    /\ BlocksContiguous
    /\ \A k \in 1 .. Len(cb.blocks) :
           cb.blocks[k][1] < cb.blocks[k][2] /\ cb.blocks[k][2] <= buffer_len
    /\ CallbackDone =>
           /\ IF buffer_len = 0 THEN cb.blocks = <<>>
              ELSE cb.blocks[Len(cb.blocks)][2] = buffer_len
           /\ \A k \in 1 .. Len(cb.applied) :
                  \E i \in ActiveSlots(voices) :
                      /\ voices[i][1].id = cb.applied[k].id
                      /\ voices[i][1].envelope_idx = buffer_len - cb.applied[k].at

\* C16 witness: a callback has returned after sub-blocks cut by two events,
\* the last one shorter than a full block
C16_Witness ==
    /\ CallbackDone
    /\ Len(cb.applied) = 2
    /\ cb.applied[1].at # cb.applied[2].at
    /\ Len(cb.blocks) >= 4
    /\ buffer_len % MAX_BLOCK_SIZE # 0

\* ------------------------------------------------------------------ block length: C17

\* C17: every process_block call of process is for a sub-block of 1 to
\* MAX_BLOCK_SIZE frames, also when block_end was shrunk to an event.
C17_BlockLenWithinScratch ==
    /\ pc = "render" =>
           /\ 1 <= block_end - block_start
           /\ block_end - block_start <= MAX_BLOCK_SIZE
    /\ \A k \in 1 .. Len(cb.blocks) :
           /\ 1 <= cb.blocks[k][2] - cb.blocks[k][1]
           /\ cb.blocks[k][2] - cb.blocks[k][1] <= MAX_BLOCK_SIZE

\* C17 witness: process_block is about to be called, with a voice in the
\* pool, for a sub-block after the first that was shrunk to an event
C17_Witness ==
    /\ pc = "render"
    /\ block_start > 0
    /\ IsSome(next_event)
    /\ block_end = next_event[1].timing
    /\ block_end - block_start < MAX_BLOCK_SIZE
    /\ block_end < buffer_len
    /\ IsVoiceActive(voices)

\* ------------------------------------------------------------------ termination: C18

\* the events the producer has sent since the callback began
SentMeanwhile == calls.send - cb.sent

C19_LateEventAppliedLater ==
    /\ \A k \in 1 .. Len(cb.applied) :
           cb.applied[k].at >= cb.applied[k].event.timing
    /\ CallbackDone =>
           \A k \in 1 .. Len(cb.received) :
               cb.received[k].timing >= FirstBlockEnd(buffer_len) =>
                   \E j \in 1 .. Len(cb.applied) :
                       /\ cb.applied[j].event = cb.received[k]
                       /\ cb.applied[j].at >= FirstBlockEnd(buffer_len)

\* ------------------------------------------------------------------ the envelope cursor: C20

\* the voice of slot i before and after the step is the same voice
SameVoice(i) ==
    /\ IsSome(voices[i])
    /\ IsSome(voices'[i])
    /\ voices'[i][1].id = voices[i][1].id

\* C20: the cursor of every active voice stays within 0 .. length of the
\* envelope table; process_block advances it by min(block_len, length -
\* cursor) and no other step changes it.
C20_CursorWithinTable ==
    [][ /\ \A i \in ActiveSlots(voices') :
             /\ 0 <= voices'[i][1].envelope_idx
             /\ voices'[i][1].envelope_idx <= envelope_data
        /\ \A i \in Slots :
             SameVoice(i) =>
                 voices'[i][1].envelope_idx =
                     IF RenderDone
                     THEN voices[i][1].envelope_idx
                          + Min(block_end - block_start,
                                envelope_data - voices[i][1].envelope_idx)
                     ELSE voices[i][1].envelope_idx ]_vars

\* C20 witness: process_block has just run on a voice in the middle of its
\* table and on one that it brought to the end of the table
C20_Witness ==
    /\ pc = "terminate"
    /\ \E i \in ActiveSlots(voices) :
          /\ 0 < voices[i][1].envelope_idx
          /\ voices[i][1].envelope_idx < envelope_data
    /\ \E i \in ActiveSlots(voices) :
          /\ voices[i][1].envelope_idx = envelope_data
          /\ envelope_data % (block_end - block_start) # 0

\* ------------------------------------------------------------------ process_block, call by call

\* what the samples of the buffer hold when process_block is entered
EntrySamples == {0, 5}

\* the longest block that process_block is called on here
RenderFrames == 16

\* how far from the end of the table the cursors of the voices started
\* together are
RenderTails == {0, 1, 5, 10, 16}

\* a voice that has been rendered for idx frames since it was started
PlayedVoice(id, note, sr, idx) ==
    LET v == NewVoice(id, note, sr)
    IN  [v EXCEPT !.envelope_idx = idx,
                  !.oscillator.phase = (idx * v.oscillator.phase_increment) % TAU(sr)]

\* a full pool after 17 note-ons: 16 voices started on one frame (ids 1 .. 16
\* in slots 0 .. 15), and the 17th, started later, in the place of the oldest
\* (slot 0)
StolenPool(env, sr, note, young, old) ==
    [i \in Slots |->
        IF i = 0 THEN Some(PlayedVoice(NUM_VOICES + 1, note, sr, young))
        ELSE Some(PlayedVoice(i + 1, 69, sr, old))]

InitRender ==
    /\ sample_rate \in SampleRates
    /\ envelope_data = BuildEnvelope(sample_rate)
    /\ \E note \in Notes, young \in {0, PoolFrames, MAX_BLOCK_SIZE}, tail \in RenderTails :
         voices = StolenPool(envelope_data, sample_rate, note, young, envelope_data - tail)
    /\ id_counter = NUM_VOICES + 1
    /\ \E fill \in EntrySamples :
         buffer = [s \in 1 .. (2 * (MAX_BLOCK_SIZE + RenderFrames)) |-> fill * (1 + (s % 2))]
    /\ channel = <<>>
    /\ pc = "idle"
    /\ buffer_len = 0
    /\ next_event = None
    /\ block_start = 0
    /\ block_end = 0
    /\ callback_delta_time = 0
    /\ timer_reset = FALSE
    /\ start_log = <<>>
    /\ calls = NoCalls
    /\ cb = NoCallback
    /\ \E b \in {<<0, RenderFrames>>, <<MAX_BLOCK_SIZE, MAX_BLOCK_SIZE + RenderFrames>>, <<3, 4>>} :
         unit = [ op      |-> "process_block",
                  b_start |-> b[1],
                  b_end   |-> b[2],
                  voices  |-> voices,
                  buffer  |-> buffer,
                  done    |-> FALSE ]

CallProcessBlockOnce ==
    /\ unit.op = "process_block"
    /\ ~unit.done
    /\ LET r == ProcessBlock(voices, envelope_data, sample_rate, buffer,
                             unit.b_start, unit.b_end)
       IN  /\ voices' = r.voices
           /\ buffer' = r.buffer
    /\ unit' = [unit EXCEPT !.done = TRUE]
    /\ calls' = [calls EXCEPT !.process_block = @ + 1]
    /\ UNCHANGED <<sample_rate, envelope_data, id_counter, channel, locals, timer,
                   start_log, cb>>

NextRender == CallProcessBlockOnce

SpecRender == InitRender /\ [][NextRender]_vars

\* the voices in slot order, from slot i on, as ProcessVoices takes them:
\* outs[j] is what the voice of slot j adds to the frames of the block (out *
\* amp for each frame), scratch is voice_amp_envelope as the voice of slot i
\* finds it
RECURSIVE VoiceOutputs(_, _, _, _, _, _, _, _)
VoiceOutputs(i, vs, env, sr, outs, scratch, b_start, b_end) ==
    IF i = NUM_VOICES THEN outs
    ELSE IF vs[i] = None
         THEN VoiceOutputs(i + 1, vs, env, sr, outs, scratch, b_start, b_end)
         ELSE LET r == RenderVoice(vs[i][1], env, sr, scratch, b_start, b_end)
              IN  VoiceOutputs(i + 1, vs, env, sr, [outs EXCEPT ![i] = r.out],
                               r.scratch, b_start, b_end)

\* what process_block adds to the frames of the block, voice by voice
Contributions(vs, env, sr, b_start, b_end) ==
    VoiceOutputs(0, vs, env, sr, [i \in Slots |-> <<>>],
                 [k \in 1 .. MAX_BLOCK_SIZE |-> 0], b_start, b_end)

\* what process_block adds for the voice v when v is the only voice of the pool
ContributionAlone(v, env, sr, b_start, b_end) ==
    RenderVoice(v, env, sr, [k \in 1 .. MAX_BLOCK_SIZE |-> 0], b_start, b_end).out

\* ------------------------------------------------------------------ C21

\* C21: in process_block the gain applied to a voice depends only on that
\* voice's own cursor and the table: what a voice adds to the block when it is
\* rendered together with the other voices of the pool is what it adds when
\* it is rendered alone (the scratch block carries nothing from one voice to
\* the next).
C21_VoicesRenderedIndependently ==
    (unit.op = "process_block" /\ unit.done) =>
        LET together == Contributions(unit.voices, envelope_data, sample_rate,
                                      unit.b_start, unit.b_end)
        IN  \A i \in ActiveSlots(unit.voices) :
                together[i] = ContributionAlone(unit.voices[i][1], envelope_data,
                                                sample_rate, unit.b_start, unit.b_end)

\* ------------------------------------------------------------------ C22

RECURSIVE MixAt(_, _, _)
MixAt(outs, k, i) ==
    IF i = NUM_VOICES THEN 0
    ELSE (IF outs[i] = <<>> THEN 0 ELSE outs[i][k]) + MixAt(outs, k, i + 1)

ProcessBlockStep == calls'.process_block # calls.process_block

KillStep == calls'.kill_active_voices # calls.kill_active_voices

\* a step of the pool that is none of start_voice, process_block and
\* kill_active_voices: terminate_finished_voices
PoolTerminateStep == calls' = calls /\ id_counter' = id_counter

\* C24: process_block never changes which slots are occupied, nor the id or
\* the note of a voice: it only advances the phase and the cursor of the
\* voices there are, leaves an Empty slot Empty and the id counter as it
\* was.  The occupancy of a slot changes only through start_voice,
\* terminate_finished_voices and kill_active_voices.
C24_ProcessBlockKeepsPool ==
    [][ /\ ProcessBlockStep =>
             /\ id_counter' = id_counter
             /\ \A i \in Slots :
                  IF voices[i] = None THEN voices'[i] = None
                  ELSE /\ IsSome(voices'[i])
                       /\ voices'[i][1].id = voices[i][1].id
                       /\ voices'[i][1].note = voices[i][1].note
                       /\ voices'[i][1].oscillator.phase_increment
                              = voices[i][1].oscillator.phase_increment
        /\ ActiveSlots(voices') # ActiveSlots(voices) =>
             StartVoiceStep \/ KillStep \/ PoolTerminateStep ]_vars

\* process_block has run on a pool with an Empty slot and a voice, and has
\* advanced the cursor of the voice
C24_Witness ==
    /\ calls.process_block > 0
    /\ \E i \in Slots : voices[i] = None
    /\ \E i \in Slots : IsSome(voices[i]) /\ 0 < voices[i][1].envelope_idx
                        /\ voices[i][1].envelope_idx < envelope_data

\* ------------------------------------------------------------------ C25

\* C25: kill_active_voices empties every slot, so that is_voice_active() is
\* false right after it (is_voice_active() being true exactly when a slot is
\* occupied); it does not reset the id counter, so a voice started after it
\* receives an id greater than all ids given before.
C25_KillEmptiesAndKeepsIds ==
    [][ /\ KillStep =>
             /\ \A i \in Slots : voices'[i] = None
             /\ ~IsVoiceActive(voices')
             /\ id_counter' = id_counter
        /\ IsVoiceActive(voices') <=> ActiveSlots(voices') # {}
        /\ (StartVoiceStep /\ calls.kill_active_voices > 0) =>
             /\ \E i \in Slots : IsSome(voices'[i]) /\ voices'[i][1].id = id_counter'
             /\ U64Less(id_counter, id_counter') ]_vars

\* ------------------------------------------------------------------ process on any buffer

EntryLens == {100}

EntryTimings == {0, 64}

EntrySends == 2

EntryCallbacks == 2

NextEntry ==
    \/ Send(EntryTimings, Notes, EntrySends)
    \/ ProcessBeginOn(EntryLens, EntryCallbacks, EntrySamples)
    \/ DispatchDue
    \/ DispatchBreak
    \/ Render
    \/ Terminate
    \/ SetCallbackTimer

SpecEntry == InitBuild /\ [][NextEntry]_vars

\* ------------------------------------------------------------------ C26

\* C26 (as stated): the render callback zeroes the output buffer once before
\* the first sub-block, so that after a callback every output sample equals
\* the sum of the voice contributions of this callback only, whatever the
\* buffer held on entry.
C26_OutputIsContributionsOnly ==
    CallbackDone => \A s \in DOMAIN buffer : buffer[s] = cb.mix[s]

\* C26 (amended): process does not clear the buffer, it only adds to it:
\* after a callback every output sample equals the value it held on entry
\* plus the sum of the voice contributions of this callback, and equals the
\* contributions alone only when the buffer is handed over holding silence.
C26_OutputIsEntryPlusContributions ==
    CallbackDone => \A s \in DOMAIN buffer : buffer[s] = cb.entry + cb.mix[s]

\* a callback on a buffer that did not hold silence has rendered a voice
C26_Witness ==
    /\ CallbackDone
    /\ cb.entry # 0
    /\ \E s \in DOMAIN buffer : cb.mix[s] # 0

\* ------------------------------------------------------------------ the control side: taps and the note-dispatch thread

\* frames_per_buffer of the output stream
BUFFER_SIZE == 512

\* callback_delta_time is kept in units of 0.0001 s
TimerUnitsPerSec == 10000

\* the sample rates of the control side: the one of the model and 44100
ProducerRates == {2200, 44100}

\* the times between two callbacks that the audio thread stores, in units of
\* 0.0001 s (0 is the value at build)
ProducerDeltas == {1, 116, 2327, 2400}

MaxTaps == 3

\* f32::round: to the nearest integer, a half away from zero (num, den >= 0)
RoundDiv(num, den) == (2 * num + den) \div (2 * den)

\* (a slip: the sample count is truncated, not rounded)
TimingTruncated(delta, sr) == ((delta * sr) \div TimerUnitsPerSec) % BUFFER_SIZE

\* let samples_exact = timer * sr; samples_exact.round() as u32 % BUFFER_SIZE
\* (delta is what timer.lr() reads)
NoteTiming(delta, sr) == RoundDiv(delta * sr, TimerUnitsPerSec) % BUFFER_SIZE

\* App::build: the note-data channel is empty, the thread is in its loop and
\* the audio model holds the receiver of the note events
InitProducer ==
    /\ sample_rate \in ProducerRates
    /\ envelope_data = BuildEnvelope(sample_rate)
    /\ voices = [i \in Slots |-> None]
    /\ id_counter = 0
    /\ buffer = <<>>
    /\ channel = <<>>
    /\ pc = "idle"
    /\ buffer_len = 0
    /\ next_event = None
    /\ block_start = 0
    /\ block_end = 0
    /\ callback_delta_time = 0
    /\ timer_reset = FALSE
    /\ start_log = <<>>
    /\ calls = NoCalls
    /\ cb = NoCallback
    /\ unit = [ op            |-> "note_event_thread",
                note_data     |-> <<>>,
                tapped        |-> <<>>,
                note_receiver |-> "held",
                thread        |-> "looping",
                sent          |-> <<>> ]

\* Sequence::tap: note_data_sender.send(note_data).expect(..); the receiver of
\* the note data lives in the thread's closure, so this send does not fail
Tap ==
    /\ unit.op = "note_event_thread"
    /\ Len(unit.tapped) < MaxTaps
    /\ \E note \in Notes :
         unit' = [unit EXCEPT !.note_data = Append(@, note),
                              !.tapped = Append(@, note)]
    /\ UNCHANGED <<handler, buffer, channel, locals, timer, start_log, calls, cb>>

\* one turn of the thread's loop that receives a message: the timing is
\* computed and the event sent; the Result of send is not looked at, and the
\* loop goes on
NoteEventThread ==
    /\ unit.op = "note_event_thread"
    /\ unit.thread = "looping"
    /\ unit.note_data # <<>>
    /\ LET msg    == Head(unit.note_data)
           timing == NoteTiming(callback_delta_time, sample_rate)
           event  == NoteOn(timing, msg, calls.send + 1)
           result == IF unit.note_receiver = "held" THEN "Ok" ELSE "Err"
       IN  /\ channel' = IF result = "Ok" THEN Append(channel, event) ELSE channel
           /\ unit' = [unit EXCEPT
                         !.note_data = Tail(@),
                         !.sent = Append(@, [event  |-> event,
                                             timer  |-> callback_delta_time,
                                             result |-> result])]
    /\ calls' = [calls EXCEPT !.send = @ + 1]
    /\ UNCHANGED <<handler, buffer, locals, timer, start_log, cb>>

\* set_callback_timer on the audio thread, seen from the control side: a new
\* delta is stored
StoreCallbackDelta ==
    /\ unit.op = "note_event_thread"
    /\ unit.note_receiver = "held"
    /\ \E delta_time \in ProducerDeltas :
         /\ delta_time # callback_delta_time
         /\ callback_delta_time' = delta_time
    /\ timer_reset' = TRUE
    /\ UNCHANGED <<handler, buffer, channel, locals, start_log, calls, cb, unit>>

\* the output stream, and with it the AudioModel and its note_receiver, is
\* dropped
DropNoteReceiver ==
    /\ unit.op = "note_event_thread"
    /\ unit.note_receiver = "held"
    /\ unit' = [unit EXCEPT !.note_receiver = "dropped"]
    /\ channel' = <<>>
    /\ UNCHANGED <<handler, buffer, locals, timer, start_log, calls, cb>>

NextProducer ==
    \/ Tap
    \/ NoteEventThread
    \/ StoreCallbackDelta
    \/ DropNoteReceiver

SpecProducer == InitProducer /\ [][NextProducer]_vars

\* ------------------------------------------------------------------ C27

\* C27: when the audio side's receiver has been dropped, the failed send of
\* the control side is a hard failure that stops the note producer: the
\* note-dispatch thread does not keep running and sending after a send has
\* failed.
C27_FailedSendStopsProducer ==
    \A k \in DOMAIN unit.sent :
        unit.sent[k].result = "Err" => /\ k = Len(unit.sent)
                                       /\ unit.thread # "looping"

\* ------------------------------------------------------------------ C28

\* C28: the note-dispatch thread sends exactly one NoteOn for each tap
\* message, in the order of the taps, each with
\* timing = round(callback_delta * sample_rate) mod BUFFER_SIZE, so that
\* 0 <= timing < 512.
C28_OneNoteOnPerTapWithTiming ==
    unit.op = "note_event_thread" =>
        /\ Len(unit.sent) + Len(unit.note_data) = Len(unit.tapped)
        /\ \A k \in DOMAIN unit.sent :
             LET e     == unit.sent[k].event
                 exact == unit.sent[k].timer * sample_rate
             IN  /\ e.kind = "NoteOn"
                 /\ e.note = unit.tapped[k]
                 /\ e.seq = k
                 /\ 0 <= e.timing /\ e.timing < 512
                 /\ \E n \in {exact \div TimerUnitsPerSec, exact \div TimerUnitsPerSec + 1} :
                      /\ n % 512 = e.timing
                      /\ 2 * n * TimerUnitsPerSec - TimerUnitsPerSec <= 2 * exact
                      /\ 2 * exact < 2 * n * TimerUnitsPerSec + TimerUnitsPerSec

\* three taps have been sent on, they differ in their notes, and one of
\* them has a sample count that is rounded up to 512 or more
C28_Witness ==
    /\ unit.op = "note_event_thread"
    /\ Len(unit.sent) = MaxTaps
    /\ unit.sent[1].event.note # unit.sent[2].event.note
    /\ \E k \in DOMAIN unit.sent :
         LET exact == unit.sent[k].timer * sample_rate
         IN  /\ 2 * exact + TimerUnitsPerSec >= 2 * 512 * TimerUnitsPerSec
             /\ 2 * (exact % TimerUnitsPerSec) >= TimerUnitsPerSec

\* ------------------------------------------------------------------ C29

TimerStep == pc = "timer" /\ pc' = "idle"

\* C29: set_callback_timer is called once per callback, after all sub-blocks
\* have been rendered; it stores the elapsed time and resets the reference
\* instant only when the elapsed time is greater than 0.0001 s, and leaves
\* both as they were otherwise.
C29_TimerStoredOncePastThreshold ==
    [][ /\ TimerStep =>
             /\ block_start >= buffer_len
             /\ BlocksContiguous
             /\ buffer_len > 0 => cb.blocks[Len(cb.blocks)][2] = buffer_len
             /\ IF cb'.elapsed > 1
                THEN callback_delta_time' = cb'.elapsed /\ timer_reset'
                ELSE UNCHANGED timer
        /\ ~TimerStep => UNCHANGED timer ]_vars

\* a callback that measured exactly 0.0001 s has returned, and the delta of
\* an earlier callback is still there
C29_Witness ==
    /\ pc = "idle"
    /\ cb.elapsed = 1
    /\ cb.blocks # <<>>
    /\ callback_delta_time > 1
    /\ timer_reset

\* ------------------------------------------------------------------ build_envelope, call by call

\* sample rates: the one of the model, common ones, and a run of neighbours
EnvRates == {2200, 22050, 22055, 44100, 48000} \cup (8000 .. 8012)

\* envelope times in seconds, as fractions <<num, den>>
EnvTimes == {<<3, 10>>, <<1, 4>>, <<1, 3>>, <<7, 100>>}

InitBuildEnvelope ==
    /\ sample_rate \in EnvRates
    /\ envelope_data = 0
    /\ voices = [i \in Slots |-> None]
    /\ id_counter = 0
    /\ buffer = <<>>
    /\ channel = <<>>
    /\ pc = "idle"
    /\ buffer_len = 0
    /\ next_event = None
    /\ block_start = 0
    /\ block_end = 0
    /\ callback_delta_time = 0
    /\ timer_reset = FALSE
    /\ start_log = <<>>
    /\ calls = NoCalls
    /\ cb = NoCallback
    /\ \E t \in EnvTimes :
         unit = [op |-> "build_envelope", num |-> t[1], den |-> t[2], done |-> FALSE]

CallBuildEnvelope ==
    /\ unit.op = "build_envelope"
    /\ ~unit.done
    /\ envelope_data' = BuildEnvelopeFor(sample_rate, unit.num, unit.den)
    /\ unit' = [unit EXCEPT !.done = TRUE]
    /\ UNCHANGED <<sample_rate, voices, id_counter, buffer, channel, locals, timer,
                   start_log, calls, cb>>

NextBuildEnvelope == CallBuildEnvelope

SpecBuildEnvelope == InitBuildEnvelope /\ [][NextBuildEnvelope]_vars

\* ------------------------------------------------------------------ C30

SineOscSetFrequency(osc, freq_hz, sr) == [osc EXCEPT !.phase_increment = freq_hz]

\* frequencies in (0, sample_rate / 2], the Nyquist frequency itself included
OscFreqs == {1, 440, 1099, 1100}

InitSineOsc ==
    /\ sample_rate \in SampleRates
    /\ envelope_data = 0
    /\ voices = [i \in Slots |-> None]
    /\ id_counter = 0
    /\ buffer = <<>>
    /\ channel = <<>>
    /\ pc = "idle"
    /\ buffer_len = 0
    /\ next_event = None
    /\ block_start = 0
    /\ block_end = 0
    /\ callback_delta_time = 0
    /\ timer_reset = FALSE
    /\ start_log = <<>>
    /\ calls = NoCalls
    /\ cb = NoCallback
    /\ \E f \in OscFreqs :
         /\ SineOscNewAsserts(f, sample_rate)
         /\ unit = [op |-> "sine_osc", osc |-> SineOscNew(f, sample_rate),
                    last |-> "new", before |-> SineOscNew(f, sample_rate),
                    out |-> 0, freq_hz |-> f]

\* SineOsc::process: the sine of the phase is returned, then the phase advances
CallOscProcess ==
    /\ unit.op = "sine_osc"
    /\ unit' = [unit EXCEPT !.osc = SineOscIncrement(unit.osc, sample_rate),
                            !.last = "process",
                            !.before = unit.osc,
                            !.out = Sin(unit.osc.phase, sample_rate)]
    /\ UNCHANGED <<handler, buffer, channel, locals, timer, start_log, calls, cb>>

CallOscSetFrequency ==
    /\ unit.op = "sine_osc"
    /\ \E f \in OscFreqs :
         /\ SineOscNewAsserts(f, sample_rate)
         /\ unit' = [unit EXCEPT !.osc = SineOscSetFrequency(unit.osc, f, sample_rate),
                                 !.last = "set_frequency",
                                 !.before = unit.osc,
                                 !.freq_hz = f]
    /\ UNCHANGED <<handler, buffer, channel, locals, timer, start_log, calls, cb>>

NextSineOsc == CallOscProcess \/ CallOscSetFrequency

SpecSineOsc == InitSineOsc /\ [][NextSineOsc]_vars

\* C31: an oscillator built with a frequency in (0, sample_rate / 2] starts
\* at phase 0 and its phase lies in [0, TAU) after any number of process()
\* calls, one conditional subtraction of TAU per call being enough since the
\* increment is at most TAU / 2; set_frequency replaces the increment and
\* leaves the phase as it was, and process() leaves the increment as it was.
C31_PhaseStaysInOnePeriod ==
    unit.op = "sine_osc" =>
        /\ 0 <= unit.osc.phase /\ unit.osc.phase < TAU(sample_rate)
        /\ 2 * unit.osc.phase_increment <= TAU(sample_rate)
        /\ unit.last = "new" => unit.osc.phase = 0
        /\ unit.last = "process" =>
             /\ unit.osc.phase_increment = unit.before.phase_increment
             /\ \/ unit.osc.phase = unit.before.phase + unit.before.phase_increment
                \/ unit.osc.phase = unit.before.phase + unit.before.phase_increment
                                      - TAU(sample_rate)
        /\ unit.last = "set_frequency" =>
             /\ unit.osc.phase = unit.before.phase
             /\ unit.osc.phase_increment = unit.freq_hz

\* a process() call at the Nyquist frequency took the subtraction from a
\* phase past half a period, on an oscillator whose frequency had been set
C31_Witness ==
    /\ unit.op = "sine_osc"
    /\ unit.last = "process"
    /\ 2 * unit.before.phase_increment = TAU(sample_rate)
    /\ 2 * unit.before.phase > TAU(sample_rate)
    /\ unit.osc.phase < unit.before.phase
    /\ unit.osc.phase > 0

\* ------------------------------------------------------------------ the shape sequencer (ui/shape/mod.rs)

MIN_NUM_VERTICES == 3

MAX_NUM_VERTICES == 8

DEFAULT_BPM == 120

DEFAULT_NUM_NODES == 4

\* progress is kept in units of 1 / ProgressUnits of a bar: 1.0 is ProgressUnits
ProgressUnits == 2400

\* the tempo slider's output range is 60 ..= 200, rounded to an integer
Tempos == {60, 120, 200}

\* frame delta times in milliseconds: no time, a short frame, and frames held
\* up for half a second, a second and three seconds
DeltaTimes == {0, 100, 500, 1000, 3000}

\* vertex counts asked of set_num_nodes, below, inside and above the range
NumRequests == {0, 2, 3, 5, 8, 9}

\* update calls of one run
MaxUpdates == 3

\* a clamp that keeps the lower limit only
ClampNumNodesBelowOnly(num) ==
    IF num < MIN_NUM_VERTICES THEN MIN_NUM_VERTICES ELSE num

\* num.clamp(MIN_NUM_VERTICES, MAX_NUM_VERTICES)
ClampNumNodes(num) ==
    IF num < MIN_NUM_VERTICES THEN MIN_NUM_VERTICES
    ELSE IF num > MAX_NUM_VERTICES THEN MAX_NUM_VERTICES
    ELSE num

\* time_per_bar.recip() * delta_time, with time_per_bar = 60 / tempo * 4
TimeIncrement(tempo, delta_time) ==
    (delta_time * tempo * ProgressUnits) \div (240 * 1000)

\* update_progress: the increment is added and 1.0 is subtracted once when
\* the sum is greater than 1.0
UpdateProgress(progress, tempo, delta_time) ==
    LET p == progress + TimeIncrement(tempo, delta_time)
    IN  IF p > ProgressUnits THEN p - ProgressUnits ELSE p

\* (lower_len ..= upper_len).contains(&(length * progress)) for segment i of
\* the regular polygon emplace_nodes lays out: the num_nodes sides have one
\* length, so lower_len is i sides, upper_len i + 1 sides and length
\* num_nodes sides
SegmentContains(i, progress, num_nodes) ==
    /\ i * ProgressUnits <= num_nodes * progress
    /\ num_nodes * progress <= (i + 1) * ProgressUnits

\* the loop of update_progress_node: the first segment holding the playhead,
\* found TRUE, or idx 0 with the loop run to its end
FindSegment(progress, num_nodes) ==
    LET holding == {i \in 0 .. num_nodes - 1 : SegmentContains(i, progress, num_nodes)}
    IN  IF holding = {}
        THEN [idx |-> 0, found |-> FALSE, read |-> 0 .. num_nodes - 1]
        ELSE LET first == CHOOSE i \in holding : \A j \in holding : i <= j
             IN  [idx |-> first, found |-> TRUE, read |-> 0 .. first]

\* Node::note_data of the node at idx: Sequence::new raises node 0 an octave
NodeNote(idx) == IF idx = 0 THEN 81 ELSE 69

\* update_progress_node and the tap it may call: the new last_behind_idx,
\* the note data sent, and the indices used on nodes and segments
UpdateProgressNode(progress, num_nodes, last_behind_idx) ==
    LET seg     == FindSegment(progress, num_nodes)
        changed == seg.idx # last_behind_idx
    IN  [last_behind_idx |-> seg.idx,
         sent     |-> IF changed
                      THEN <<[node |-> seg.idx, note |-> NodeNote(seg.idx)]>>
                      ELSE <<>>,
         segments |-> seg.read,
         nodes    |-> {seg.idx % num_nodes, (seg.idx + 1) % num_nodes}
                        \cup (IF changed THEN {seg.idx} ELSE {})]

\* emplace_nodes, update_segments and update_length: the indices they use
LayoutIndices(num_nodes) ==
    [segments |-> 0 .. num_nodes - 1,
     nodes    |-> (0 .. num_nodes - 1) \cup {(i + 1) % num_nodes : i \in 0 .. num_nodes - 1}]

\* Sequence::new(rect, sender, DEFAULT_NUM_NODES, DEFAULT_BPM)
InitSequence ==
    /\ sample_rate \in SampleRates
    /\ envelope_data = 0
    /\ voices = [i \in Slots |-> None]
    /\ id_counter = 0
    /\ buffer = <<>>
    /\ channel = <<>>
    /\ pc = "idle"
    /\ buffer_len = 0
    /\ next_event = None
    /\ block_start = 0
    /\ block_end = 0
    /\ callback_delta_time = 0
    /\ timer_reset = FALSE
    /\ start_log = <<>>
    /\ calls = NoCalls
    /\ cb = NoCallback
    /\ unit = [op |-> "sequence",
               num_nodes |-> DEFAULT_NUM_NODES,
               tempo |-> DEFAULT_BPM,
               progress |-> 0,
               last_behind_idx |-> 0,
               updates |-> 0,
               last |-> "new",
               from |-> 0,
               arg |-> DEFAULT_NUM_NODES,
               nodes_before |-> DEFAULT_NUM_NODES,
               sent |-> <<>>,
               segments |-> LayoutIndices(DEFAULT_NUM_NODES).segments,
               nodes |-> LayoutIndices(DEFAULT_NUM_NODES).nodes]

\* Drawable::update with the mouse button up: update_progress(delta_time),
\* then update_progress_node()
SequenceUpdate ==
    /\ unit.op = "sequence"
    /\ unit.updates < MaxUpdates
    /\ \E delta \in DeltaTimes :
         LET p == UpdateProgress(unit.progress, unit.tempo, delta)
             n == UpdateProgressNode(p, unit.num_nodes, unit.last_behind_idx)
         IN  unit' = [unit EXCEPT !.progress = p,
                                  !.last_behind_idx = n.last_behind_idx,
                                  !.updates = @ + 1,
                                  !.last = "update",
                                  !.from = unit.progress,
                                  !.arg = delta,
                                  !.nodes_before = unit.num_nodes,
                                  !.sent = n.sent,
                                  !.segments = n.segments,
                                  !.nodes = n.nodes]
    /\ UNCHANGED <<handler, buffer, channel, locals, timer, start_log, calls, cb>>

SequenceSetTempo ==
    /\ unit.op = "sequence"
    /\ \E bpm \in Tempos :
         unit' = [unit EXCEPT !.tempo = bpm,
                              !.last = "set_tempo",
                              !.from = unit.progress,
                              !.arg = bpm,
                              !.nodes_before = unit.num_nodes,
                              !.sent = <<>>,
                              !.segments = {},
                              !.nodes = {}]
    /\ UNCHANGED <<handler, buffer, channel, locals, timer, start_log, calls, cb>>

SequenceSetNumNodes ==
    /\ unit.op = "sequence"
    /\ \E num \in NumRequests :
         LET n == ClampNumNodes(num)
         IN  unit' = [unit EXCEPT !.num_nodes = n,
                                  !.last = "set_num_nodes",
                                  !.from = unit.progress,
                                  !.arg = num,
                                  !.nodes_before = unit.num_nodes,
                                  !.sent = <<>>,
                                  !.segments = LayoutIndices(n).segments,
                                  !.nodes = LayoutIndices(n).nodes]
    /\ UNCHANGED <<handler, buffer, channel, locals, timer, start_log, calls, cb>>

SequenceReset ==
    /\ unit.op = "sequence"
    /\ unit' = [unit EXCEPT !.progress = 0,
                            !.last = "reset",
                            !.from = unit.progress,
                            !.arg = 0,
                            !.nodes_before = unit.num_nodes,
                            !.sent = <<>>,
                            !.segments = LayoutIndices(unit.num_nodes).segments,
                            !.nodes = LayoutIndices(unit.num_nodes).nodes]
    /\ UNCHANGED <<handler, buffer, channel, locals, timer, start_log, calls, cb>>

NextSequence ==
    \/ SequenceUpdate
    \/ SequenceSetTempo
    \/ SequenceSetNumNodes
    \/ SequenceReset

SpecSequence == InitSequence /\ [][NextSequence]_vars

\* ------------------------------------------------------------------ C32

\* the vertices the playhead passes on its way from progress `from` over
\* `by` more of a bar, round a polygon of num_nodes equal sides: vertex k
\* (vertex k % num_nodes of lap k \div num_nodes) lies k sides from the start
\* and is passed when the playhead was at or before it and is now beyond it
VerticesPassed(from, by, num_nodes) ==
    {k \in 1 .. ((num_nodes * (from + by)) \div ProgressUnits) + 1 :
        /\ num_nodes * from <= k * ProgressUnits
        /\ k * ProgressUnits < num_nodes * (from + by)}

\* C32 (as stated): in every update the sequencer sends one note-data
\* message per vertex the playhead passed in it, the message of that vertex,
\* and none in an update in which it passed no vertex.
C32_OneMessagePerVertexPassed ==
    (unit.op = "sequence" /\ unit.last = "update") =>
        LET passed == VerticesPassed(unit.from, TimeIncrement(unit.tempo, unit.arg),
                                     unit.num_nodes)
        IN  /\ Len(unit.sent) = Cardinality(passed)
            /\ \A m \in 1 .. Len(unit.sent) :
                 \E k \in passed : unit.sent[m].node = k % unit.num_nodes

\* ------------------------------------------------------------------ C33

\* C33 (as stated): the progress lies in [0, 1) after every update_progress
\* call, for every tempo of the slider and every frame delta time, and is 0
\* after reset.
C33_ProgressBelowOne ==
    unit.op = "sequence" =>
        /\ unit.last = "update" => (0 <= unit.progress /\ unit.progress < ProgressUnits)
        /\ unit.last = "reset" => unit.progress = 0

\* ------------------------------------------------------------------ C34

\* C34: set_num_nodes stores the requested count clamped to
\* [MIN_NUM_VERTICES, MAX_NUM_VERTICES]; after any sequence of calls
\* num_nodes is in that range and every index used on the nodes and segments
\* vectors of MAX_NUM_VERTICES entries, last_behind_idx included, is below
\* MAX_NUM_VERTICES; reset leaves num_nodes as it was.
C34_NumNodesClampedIndicesInRange ==
    unit.op = "sequence" =>
        /\ MIN_NUM_VERTICES <= unit.num_nodes /\ unit.num_nodes <= MAX_NUM_VERTICES
        /\ unit.nodes \subseteq 0 .. MAX_NUM_VERTICES - 1
        /\ unit.segments \subseteq 0 .. MAX_NUM_VERTICES - 1
        /\ unit.last_behind_idx \in 0 .. MAX_NUM_VERTICES - 1
        /\ unit.last = "set_num_nodes" =>
             /\ unit.arg < MIN_NUM_VERTICES => unit.num_nodes = MIN_NUM_VERTICES
             /\ unit.arg > MAX_NUM_VERTICES => unit.num_nodes = MAX_NUM_VERTICES
             /\ unit.arg \in MIN_NUM_VERTICES .. MAX_NUM_VERTICES =>
                  unit.num_nodes = unit.arg
        /\ unit.last = "reset" => unit.num_nodes = unit.nodes_before

\* a request above the range was clamped to 8 vertices, the playhead went
\* behind vertex 7, and a request below the range then left 3 vertices with
\* last_behind_idx still 7; reset kept the 3 vertices
C34_Witness ==
    /\ unit.op = "sequence"
    /\ unit.last = "reset"
    /\ unit.num_nodes = MIN_NUM_VERTICES
    /\ unit.last_behind_idx = MAX_NUM_VERTICES - 1

====
